---- MODULE Spec2Model ----
(***************************************************************************)
(* Funds-transfer and exchange-rate engine:                                *)
(*   services/transaction_service.py  TransactionService                   *)
(*   services/exchange_service.py     ExchangeService (process singleton)  *)
(*   services/account_service.py      AccountService.deposit_to_account    *)
(*                                                                         *)
(* Every request runs in a thread of its own with a database session of    *)
(* its own; the threads share the database rows and the ExchangeService    *)
(* singleton.  A session keeps the rows it has loaded (identity map) and   *)
(* writes the attributes it changed when it commits.                       *)
(*                                                                         *)
(* Amounts and rates are integers: an amount is a number of minor units,   *)
(* a rate is an integer multiplier.                                        *)
(***************************************************************************)
EXTENDS Integers, Sequences, FiniteSets, TLC

\* ------------------------------------------------------------------ bounds

\* Calls started in one behaviour.
MaxCalls == 2

\* The request-handling threads.
Threads == {"t1", "t2"}
ThreadNo == [t1 |-> 1, t2 |-> 2]

\* Amounts a caller may send: TransactionCreate.amount is an unconstrained float,
\* deposit_to_account takes any float.
TransferAmounts == {-50, 60, 100}
DepositAmounts == {-50, 0, 60}

\* ------------------------------------------------------------ database rows

Users == {1, 2}

\* Account rows: id |-> owner and currency (the balance is state).
AccountRows ==
    (1 :> [user_id |-> 1, currency_id |-> 1]) @@
    (2 :> [user_id |-> 2, currency_id |-> 2]) @@
    (3 :> [user_id |-> 2, currency_id |-> 1]) @@
    (4 :> [user_id |-> 1, currency_id |-> 3])

AccountIds == DOMAIN AccountRows

\* An account id no row has.
MissingAccountId == 999

\* Currency rows: id |-> code.  No row has the currency id of account 4.
CurrencyCode == (1 :> "USD") @@ (2 :> "EUR")

\* The accounts whose currency row is missing.
OrphanAccountIds == {a \in AccountIds : AccountRows[a].currency_id \notin DOMAIN CurrencyCode}

\* The account ids of the requests of the main behaviours: the accounts whose
\* currency row exists, and the id no row has.
RequestAccountIds == (AccountIds \ OrphanAccountIds) \cup {MissingAccountId}

InitialBalance == (1 :> 100) @@ (2 :> 50) @@ (3 :> 0) @@ (4 :> 100)

\* ------------------------------------------------------------ rate providers

\* The rates a provider may answer with when it answers: the spot rate of an
\* external source, which for a pair of distinct codes may be 1.
ApiRates == [primary |-> {1, 2}, fallback |-> {3}]

\* The swap always picks the fallback.
OtherApi_Fallback(api) == "fallback"

\* self._fallback_api if self._current_api == self._primary_api else self._primary_api
OtherApi(api) == IF api = "primary" THEN "fallback" ELSE "primary"

\* Every construction makes the primary current.
New_Reset(api) == "primary"

\* ExchangeService(): with no instance yet ("none") the instance is built with
\* the primary current; afterwards the instance is returned as it is.
New(api) == IF api = "none" THEN "primary" ELSE api

\* _instance = None
NoInstance == [id |-> 0, primary_api |-> FALSE, fallback_api |-> FALSE]

\* ExchangeService() run without interruption: the first call makes the object
\* and sets its providers, every later call finds it.
Constructed(inst) ==
    IF inst.id = 0
    THEN [id |-> 1, primary_api |-> TRUE, fallback_api |-> TRUE]
    ELSE inst

\* ------------------------------------------------------------------ errors

ErrSource == "La cuenta de origen no existe o no pertenece al usuario"
ErrDestination == "La cuenta de destino no existe"
ErrBalance == "Balance insuficiente en la cuenta de origen"
ErrRate == "Could not get exchange rate from any API"
ErrCommit == "commit failed"
ErrDepositAmount == "El monto del deposito debe ser positivo."
ErrDepositAccount == "Cuenta no encontrada para el deposito."

\* AttributeError: the code attribute is read of a Currency query that found no row.
ErrNoneCode == "'NoneType' object has no attribute 'code'"

NoError == [msg |-> "", from |-> "", to |-> ""]
Error(m) == [msg |-> m, from |-> "", to |-> ""]
\* ValueError(f"Could not get exchange rate from {from_currency} to {to_currency} from any API")
RateError(f, t) == [msg |-> ErrRate, from |-> f, to |-> t]

\* ------------------------------------------ MockExchangeService.get_exchange_rate

\* A rate is a fraction <<numerator, denominator>>: 0.27 is <<27, 100>>.
MOCKED_RATES ==
    (<<"PEN", "USD">> :> <<27, 100>>) @@ (<<"USD", "PEN">> :> <<370, 100>>) @@
    (<<"EUR", "USD">> :> <<108, 100>>) @@ (<<"USD", "EUR">> :> <<92, 100>>) @@
    (<<"PEN", "EUR">> :> <<25, 100>>) @@ (<<"EUR", "PEN">> :> <<400, 100>>) @@
    (<<"GBP", "USD">> :> <<125, 100>>) @@ (<<"JPY", "USD">> :> <<68, 10000>>) @@
    (<<"CAD", "USD">> :> <<73, 100>>) @@ (<<"AUD", "USD">> :> <<66, 100>>)

\* The codes of the table and two codes the table does not have.
MockCodes == {"PEN", "USD", "EUR", "GBP", "JPY", "CAD", "AUD", "XYZ", "ABC"}

None == <<>>

\* dict.get(key): the value, or None
Get(table, key) == IF key \in DOMAIN table THEN table[key] ELSE None

\* if inverse_rate: None and 0.0 are false
Truthy(rate) == rate # None /\ rate[1] # 0

\* 1 / inverse_rate
OneOver(rate) == <<rate[2], rate[1]>>

ErrMockRate == "No hay tasa de cambio mockeada disponible"

\* ValueError(f"No hay tasa de cambio mockeada disponible para {from} a {to}")
MockRateError(f, t) == [msg |-> ErrMockRate, from |-> f, to |-> t]

\* The inverse pair is looked up before the directed pair.
MockGetExchangeRate_InverseFirst(f, t) ==
    LET inverse_rate == Get(MOCKED_RATES, <<t, f>>) IN
    IF Truthy(inverse_rate)
    THEN [raised |-> FALSE, rate |-> OneOver(inverse_rate), error |-> NoError]
    ELSE LET rate == Get(MOCKED_RATES, <<f, t>>) IN
         IF rate = None
         THEN [raised |-> TRUE, rate |-> None, error |-> MockRateError(f, t)]
         ELSE [raised |-> FALSE, rate |-> rate, error |-> NoError]

\* The outcome of MockExchangeService.get_exchange_rate(f, t).
MockGetExchangeRate(f, t) ==
    LET rate == Get(MOCKED_RATES, <<f, t>>) IN
    IF rate = None
    THEN LET inverse_rate == Get(MOCKED_RATES, <<t, f>>) IN
         IF Truthy(inverse_rate)
         THEN [raised |-> FALSE, rate |-> OneOver(inverse_rate), error |-> NoError]
         ELSE [raised |-> TRUE, rate |-> None, error |-> MockRateError(f, t)]
    ELSE [raised |-> FALSE, rate |-> rate, error |-> NoError]

\* ------------------------------------------------------- the transaction routes

\* The messages of the errors raised as ValueError.
ValueErrors == {ErrSource, ErrDestination, ErrBalance, ErrRate, ErrMockRate}

\* except ValueError -> 400, except Exception -> 500.
StatusCode(e) == IF e.msg \in ValueErrors THEN 400 ELSE 500

\* ------------------------------------------------------------------- state

VARIABLES
    db_balance,          \* accounts table: id |-> committed balance
    ledger,              \* transactions table: the committed records, in insert order
    current_api,         \* ExchangeService._instance._current_api
    clock,               \* datetime.now(timezone.utc)
    ncalls,              \* calls started so far
    th,                  \* per thread: position, arguments, locals, session, outcome,
                         \* and the database and current provider as the call found them
    instance             \* ExchangeService._instance: the identity of the object (0 is
                         \* None) and whether its provider attributes are set; its
                         \* _current_api is current_api ("none": not set)

vars == <<db_balance, ledger, current_api, clock, ncalls, th, instance>>

\* A session that has loaded no row.
EmptySession == [a \in {} |-> 0]

\* The identity map: a row already in the session is not read again.
Load(s, id, v) ==
    [a \in DOMAIN s \cup {id} |-> IF a \in DOMAIN s THEN s[a] ELSE v]

IdleThread ==
    [pc |-> "idle", op |-> "none",
     user |-> 0, source_account_id |-> 0, destination_account_id |-> 0,
     account_id |-> 0, amount |-> 0, use_mocked_exchange |-> FALSE,
     sess |-> EmptySession, loaded |-> EmptySession,
     from_currency |-> "", to_currency |-> "",
     exchange_rate |-> 0, destination_amount |-> 0,
     pending |-> <<>>,
     old_api |-> "", picked |-> "", attempts |-> <<>>,
     times |-> 0, switches |-> 0,
     status |-> "none", error |-> NoError, result |-> <<>>, account |-> <<>>,
     notified |-> "none", receiver |-> 0, notices |-> <<>>,
     service |-> 0, complete |-> FALSE,
     pre_balance |-> InitialBalance, pre_ledger |-> <<>>, pre_api |-> "primary"]

Init ==
    /\ db_balance = InitialBalance
    /\ ledger = <<>>
    /\ current_api = "none"
    /\ clock = 1
    /\ ncalls = 0
    /\ th = [t \in Threads |-> IdleThread]
    /\ instance = NoInstance

\* No call is in progress.
Quiet == \A u \in Threads : th[u].pc = "idle"

\* A request is given to the first free thread of the pool, once the calls that
\* have ended have returned.
Free(t) ==
    /\ th[t].pc = "idle"
    /\ \A u \in Threads : th[u].pc # "done"
    /\ \A u \in Threads : th[u].pc = "idle" => ThreadNo[t] <= ThreadNo[u]

\* The call raises e: nothing of the session is committed.
Raise(r, e) == [r EXCEPT !.pc = "done", !.status = "raised", !.error = e]

\* ------------------------------------------- TransactionService: the transfer

\* A request reaches the route, which builds TransactionService(db,
\* use_mocked_exchange=False) and with it ExchangeService(), and calls
\* create_new_transaction(transaction_data, current_user).
BeginTransfer(t) ==
    /\ Free(t)
    /\ ncalls < MaxCalls
    /\ \E u \in Users, s \in RequestAccountIds, d \in RequestAccountIds, a \in TransferAmounts :
          th' = [th EXCEPT ![t] =
                   [IdleThread EXCEPT !.pc = "query_source", !.op = "transfer",
                                      !.user = u, !.source_account_id = s,
                                      !.destination_account_id = d, !.amount = a,
                                      !.pre_balance = db_balance,
                                      !.pre_ledger = ledger,
                                      !.pre_api = New(current_api)]]
    /\ ncalls' = ncalls + 1
    /\ current_api' = New(current_api)
    /\ instance' = Constructed(instance)
    /\ UNCHANGED <<db_balance, ledger, clock>>

\* The amounts of the requests to the mocked-exchange route: the table's rates
\* of the codes of the currency rows convert them to whole amounts.
MockedAmounts == {50, 100}

\* A request reaches the mocked-exchange route, which builds
\* TransactionService(db, use_mocked_exchange=True), and with it a
\* MockExchangeService and no ExchangeService, and calls create_new_transaction.
BeginMockedTransfer(t) ==
    /\ Free(t)
    /\ ncalls < MaxCalls
    /\ \E u \in Users, s \in AccountIds \ OrphanAccountIds,
          d \in AccountIds \ OrphanAccountIds, a \in MockedAmounts :
          th' = [th EXCEPT ![t] =
                   [IdleThread EXCEPT !.pc = "query_source", !.op = "transfer",
                                      !.use_mocked_exchange = TRUE,
                                      !.user = u, !.source_account_id = s,
                                      !.destination_account_id = d, !.amount = a,
                                      !.pre_balance = db_balance,
                                      !.pre_ledger = ledger,
                                      !.pre_api = current_api]]
    /\ ncalls' = ncalls + 1
    /\ UNCHANGED <<db_balance, ledger, current_api, clock, instance>>

\* A request to the transaction route in which the source or the destination is
\* an account whose currency row is missing.
BeginOrphanTransfer(t) ==
    /\ Free(t)
    /\ ncalls < MaxCalls
    /\ \E u \in Users, s \in AccountIds, d \in AccountIds, a \in TransferAmounts :
          /\ s \in OrphanAccountIds \/ d \in OrphanAccountIds
          /\ th' = [th EXCEPT ![t] =
                      [IdleThread EXCEPT !.pc = "query_source", !.op = "transfer",
                                         !.user = u, !.source_account_id = s,
                                         !.destination_account_id = d, !.amount = a,
                                         !.pre_balance = db_balance,
                                         !.pre_ledger = ledger,
                                         !.pre_api = New(current_api)]]
    /\ ncalls' = ncalls + 1
    /\ current_api' = New(current_api)
    /\ instance' = Constructed(instance)
    /\ UNCHANGED <<db_balance, ledger, clock>>

\* The source is looked up by id only.
SourceFound_AnyOwner(id, user) == id \in AccountIds

\* Account.id == source_account_id, Account.user_id == current_user.id
SourceFound(id, user) == id \in AccountIds /\ AccountRows[id].user_id = user

QuerySource(t) ==
    /\ th[t].pc = "query_source"
    /\ LET id == th[t].source_account_id IN
       IF SourceFound(id, th[t].user)
       THEN th' = [th EXCEPT ![t].pc = "query_destination",
                             ![t].sess = Load(@, id, db_balance[id]),
                             ![t].loaded = Load(@, id, db_balance[id])]
       ELSE th' = [th EXCEPT ![t] = Raise(@, Error(ErrSource))]
    /\ UNCHANGED <<db_balance, ledger, current_api, clock, ncalls, instance>>

\* The record carries the source amount as its destination amount.
NewTransaction_SameAmount(r, now) ==
    [sender_id |-> r.user,
     receiver_id |-> AccountRows[r.destination_account_id].user_id,
     source_account_id |-> r.source_account_id,
     destination_account_id |-> r.destination_account_id,
     source_amount |-> r.amount,
     source_currency_id |-> AccountRows[r.source_account_id].currency_id,
     destination_amount |-> r.amount,
     destination_currency_id |-> AccountRows[r.destination_account_id].currency_id,
     exchange_rate |-> r.exchange_rate,
     timestamp |-> now]

\* The record carries the caller as its receiver.
NewTransaction_ReceiverCaller(r, now) ==
    [sender_id |-> r.user,
     receiver_id |-> r.user,
     source_account_id |-> r.source_account_id,
     destination_account_id |-> r.destination_account_id,
     source_amount |-> r.amount,
     source_currency_id |-> AccountRows[r.source_account_id].currency_id,
     destination_amount |-> r.destination_amount,
     destination_currency_id |-> AccountRows[r.destination_account_id].currency_id,
     exchange_rate |-> r.exchange_rate,
     timestamp |-> now]

\* Transaction(...)
NewTransaction(r, now) ==
    [sender_id |-> r.user,
     receiver_id |-> AccountRows[r.destination_account_id].user_id,
     source_account_id |-> r.source_account_id,
     destination_account_id |-> r.destination_account_id,
     source_amount |-> r.amount,
     source_currency_id |-> AccountRows[r.source_account_id].currency_id,
     destination_amount |-> r.destination_amount,
     destination_currency_id |-> AccountRows[r.destination_account_id].currency_id,
     exchange_rate |-> r.exchange_rate,
     timestamp |-> now]

\* source_account.balance -= transaction_data.amount
Debit(s, id, amount) == [s EXCEPT ![id] = @ - amount]

\* destination_account.balance += destination_amount
Credit(s, id, amount) == [s EXCEPT ![id] = @ + amount]

\* The credit is computed from the destination row as it was loaded: for a
\* transfer of an account to itself it overwrites the debit.
Built_CreditFromLoaded(r, now) ==
    [r EXCEPT !.pc = "commit",
              !.pending = <<NewTransaction(r, now)>>,
              !.sess = [Debit(@, r.source_account_id, r.amount)
                           EXCEPT ![r.destination_account_id] =
                              r.sess[r.destination_account_id]
                                 + r.destination_amount]]

\* With the rate known: the record is built with the time read once, both
\* balances change in the session, the record is added to the session.
Built(r, now) ==
    [r EXCEPT !.pc = "commit",
              !.pending = <<NewTransaction(r, now)>>,
              !.sess = Credit(Debit(@, r.source_account_id, r.amount),
                              r.destination_account_id, r.destination_amount)]

\* The resolver is asked whatever the codes are.
Currencies_AlwaysAsk(r, now) ==
    LET sc == CurrencyCode[AccountRows[r.source_account_id].currency_id]
        dc == CurrencyCode[AccountRows[r.destination_account_id].currency_id]
    IN [r EXCEPT !.pc = "ex_first", !.from_currency = sc, !.to_currency = dc]

\* For equal codes the rate is left unset.
Currencies_RateUnset(r, now) ==
    LET sc == CurrencyCode[AccountRows[r.source_account_id].currency_id]
        dc == CurrencyCode[AccountRows[r.destination_account_id].currency_id]
    IN IF sc # dc
       THEN [r EXCEPT !.pc = "ex_first", !.from_currency = sc, !.to_currency = dc]
       ELSE Built([r EXCEPT !.from_currency = sc, !.to_currency = dc,
                            !.exchange_rate = 0,
                            !.destination_amount = r.amount], now)

\* The resolver is asked for the rate from the destination code to the source
\* code.
Currencies_Swapped(r, now) ==
    LET sc == CurrencyCode[AccountRows[r.source_account_id].currency_id]
        dc == CurrencyCode[AccountRows[r.destination_account_id].currency_id]
    IN IF sc # dc
       THEN [r EXCEPT !.pc = "ex_first", !.from_currency = dc, !.to_currency = sc]
       ELSE Built([r EXCEPT !.from_currency = sc, !.to_currency = dc,
                            !.exchange_rate = 1,
                            !.destination_amount = r.amount], now)

\* db.query(Currency).filter(Currency.id == id).first() finds a row.
CurrencyFound(id) == id \in DOMAIN CurrencyCode

\* A missing currency row counts as the code of the other account: the rate is 1.
Currencies_MissingAsSame(r, now) ==
    Built([r EXCEPT !.exchange_rate = 1, !.destination_amount = r.amount], now)

\* amount * exchange_rate for a rate of the mock table
ConvertMocked(amount, rate) == (amount * rate[1]) \div rate[2]

\* self.exchange_service is a MockExchangeService: the rate of the table, or
\* its ValueError, which create_new_transaction does not catch.
MockedRate(r, now) ==
    LET out == MockGetExchangeRate(r.from_currency, r.to_currency) IN
    IF out.raised
    THEN Raise(r, out.error)
    ELSE Built([r EXCEPT !.exchange_rate = out.rate,
                         !.destination_amount = ConvertMocked(r.amount, out.rate)],
               now)

\* The two Currency queries and the branch on the codes: reading the code of a
\* row that was not found raises AttributeError.
Currencies(r, now) ==
    LET source_currency == AccountRows[r.source_account_id].currency_id
        destination_currency == AccountRows[r.destination_account_id].currency_id
        sc == CurrencyCode[source_currency]
        dc == CurrencyCode[destination_currency]
    IN IF ~CurrencyFound(source_currency) \/ ~CurrencyFound(destination_currency)
       THEN Raise(r, Error(ErrNoneCode))
       ELSE IF sc # dc
       THEN IF r.use_mocked_exchange
            THEN MockedRate([r EXCEPT !.from_currency = sc, !.to_currency = dc], now)
            ELSE [r EXCEPT !.pc = "ex_first", !.from_currency = sc, !.to_currency = dc]
       ELSE Built([r EXCEPT !.from_currency = sc, !.to_currency = dc,
                            !.exchange_rate = 1,
                            !.destination_amount = r.amount], now)

\* The balance check never rejects.
Insufficient_Never(balance, amount) == FALSE

\* The balance check rejects a transfer of the whole balance.
Insufficient_OrEqual(balance, amount) == balance <= amount

\* source_account.balance < transaction_data.amount
Insufficient(balance, amount) == balance < amount

\* if source_account.balance < transaction_data.amount: raise ValueError(...)
CheckBalance(r, now) ==
    IF Insufficient(r.sess[r.source_account_id], r.amount)
    THEN Raise(r, Error(ErrBalance))
    ELSE Currencies(r, now)

\* Account.id == destination_account_id
DestinationFound(id) == id \in AccountIds

\* The source is debited in the database before the rate is asked for.
QueryDestination_DebitFirst(t) ==
    /\ th[t].pc = "query_destination"
    /\ LET id == th[t].destination_account_id IN
       IF DestinationFound(id)
       THEN th' = [th EXCEPT ![t] =
                     CheckBalance([@ EXCEPT !.sess = Load(@, id, db_balance[id]),
                                            !.loaded = Load(@, id, db_balance[id])],
                                  clock)]
       ELSE th' = [th EXCEPT ![t] = Raise(@, Error(ErrDestination))]
    /\ clock' = IF th'[t].pc = "commit" THEN clock + 1 ELSE clock
    /\ db_balance' = IF th'[t].pc = "ex_first"
                     THEN [db_balance EXCEPT ![th[t].source_account_id] =
                                                @ - th[t].amount]
                     ELSE db_balance
    /\ UNCHANGED <<ledger, current_api, ncalls, instance>>

\* The balance is checked before the destination is looked up.
QueryDestination_BalanceFirst(t) ==
    /\ th[t].pc = "query_destination"
    /\ LET id == th[t].destination_account_id IN
       IF Insufficient(th[t].sess[th[t].source_account_id], th[t].amount)
       THEN th' = [th EXCEPT ![t] = Raise(@, Error(ErrBalance))]
       ELSE IF DestinationFound(id)
       THEN th' = [th EXCEPT ![t] =
                     CheckBalance([@ EXCEPT !.sess = Load(@, id, db_balance[id]),
                                            !.loaded = Load(@, id, db_balance[id])],
                                  clock)]
       ELSE th' = [th EXCEPT ![t] = Raise(@, Error(ErrDestination))]
    /\ clock' = IF th'[t].pc = "commit" THEN clock + 1 ELSE clock
    /\ UNCHANGED <<db_balance, ledger, current_api, ncalls, instance>>

\* The destination query, the balance check and the currency queries; for equal
\* codes the call goes on to the commit without leaving the thread.
QueryDestination(t) ==
    /\ th[t].pc = "query_destination"
    /\ LET id == th[t].destination_account_id IN
       IF DestinationFound(id)
       THEN th' = [th EXCEPT ![t] =
                     CheckBalance([@ EXCEPT !.sess = Load(@, id, db_balance[id]),
                                            !.loaded = Load(@, id, db_balance[id])],
                                  clock)]
       ELSE th' = [th EXCEPT ![t] = Raise(@, Error(ErrDestination))]
    /\ clock' = IF th'[t].pc = "commit" THEN clock + 1 ELSE clock
    /\ UNCHANGED <<db_balance, ledger, current_api, ncalls, instance>>

\* ------------------------------------------ ExchangeService.get_exchange_rate

\* A provider call: the thread reads self._current_api and asks that provider.
Attempt(api, ok, rate) == [api |-> api, ok |-> ok, rate |-> rate]

\* The rate is left out of the conversion.
Convert_NoRate(amount, rate) == amount

\* destination_amount = transaction_data.amount * exchange_rate
Convert(amount, rate) == amount * rate

\* A unit is added to the provider's rate before it is returned.
RateReturned_Fee(r, api, rate, now) ==
    Built([r EXCEPT !.attempts = Append(@, Attempt(api, TRUE, rate)),
                    !.exchange_rate = rate + 1,
                    !.destination_amount = Convert(r.amount, rate + 1)], now)

\* get_exchange_rate returns the rate to create_new_transaction, which goes on to
\* the commit.
RateReturned(r, api, rate, now) ==
    Built([r EXCEPT !.attempts = Append(@, Attempt(api, TRUE, rate)),
                    !.exchange_rate = rate,
                    !.destination_amount = Convert(r.amount, rate)], now)

\* A call that succeeds at once makes the primary current again.
ExFirstOk_Reset(t) ==
    /\ th[t].pc = "ex_first"
    /\ \E rate \in ApiRates[current_api] :
          th' = [th EXCEPT ![t] = RateReturned(@, current_api, rate, clock)]
    /\ clock' = clock + 1
    /\ current_api' = "primary"
    /\ UNCHANGED <<db_balance, ledger, ncalls, instance>>

\* return self._current_api.get_exchange_rate(...): the provider answers.
ExFirstOk(t) ==
    /\ th[t].pc = "ex_first"
    /\ \E rate \in ApiRates[current_api] :
          th' = [th EXCEPT ![t] = RateReturned(@, current_api, rate, clock)]
    /\ clock' = clock + 1
    /\ UNCHANGED <<db_balance, ledger, current_api, ncalls, instance>>

\* The provider raises: control enters the except clause.
ExFirstFail(t) ==
    /\ th[t].pc = "ex_first"
    /\ th' = [th EXCEPT ![t].pc = "ex_save",
                        ![t].attempts = Append(@, Attempt(current_api, FALSE, 0))]
    /\ UNCHANGED <<db_balance, ledger, current_api, clock, ncalls, instance>>

\* old_api = self._current_api
ExSaveOld(t) ==
    /\ th[t].pc = "ex_save"
    /\ th' = [th EXCEPT ![t].pc = "ex_pick", ![t].old_api = current_api]
    /\ UNCHANGED <<db_balance, ledger, current_api, clock, ncalls, instance>>

\* The right-hand side of the swap is evaluated ...
ExPickOther(t) ==
    /\ th[t].pc = "ex_pick"
    /\ th' = [th EXCEPT ![t].pc = "ex_store", ![t].picked = OtherApi(current_api)]
    /\ UNCHANGED <<db_balance, ledger, current_api, clock, ncalls, instance>>

\* ... and stored: self._current_api = <the other provider>
ExStore(t) ==
    /\ th[t].pc = "ex_store"
    /\ current_api' = th[t].picked
    /\ th' = [th EXCEPT ![t].pc = "ex_second"]
    /\ UNCHANGED <<db_balance, ledger, clock, ncalls, instance>>

\* The second attempt reads self._current_api again.
ExSecondOk(t) ==
    /\ th[t].pc = "ex_second"
    /\ \E rate \in ApiRates[current_api] :
          th' = [th EXCEPT ![t] = RateReturned(@, current_api, rate, clock)]
    /\ clock' = clock + 1
    /\ UNCHANGED <<db_balance, ledger, current_api, ncalls, instance>>

ExSecondFail(t) ==
    /\ th[t].pc = "ex_second"
    /\ th' = [th EXCEPT ![t].pc = "ex_restore",
                        ![t].attempts = Append(@, Attempt(current_api, FALSE, 0))]
    /\ UNCHANGED <<db_balance, ledger, current_api, clock, ncalls, instance>>

\* The provider tried last stays current.
Restored_Stuck(old, cur) == cur

\* The provider that becomes current when both attempts failed.
Restored(old, cur) == old

\* After two failed attempts the call starts over.
ExRestore_Retry(t) ==
    /\ th[t].pc = "ex_restore"
    /\ current_api' = Restored(th[t].old_api, current_api)
    /\ th' = [th EXCEPT ![t].pc = "ex_first", ![t].attempts = <<>>]
    /\ UNCHANGED <<db_balance, ledger, clock, ncalls, instance>>

\* self._current_api = old_api; raise ValueError(...): create_new_transaction
\* does not catch it.
ExRestore(t) ==
    /\ th[t].pc = "ex_restore"
    /\ current_api' = Restored(th[t].old_api, current_api)
    /\ th' = [th EXCEPT ![t] =
                Raise(@, RateError(th[t].from_currency, th[t].to_currency))]
    /\ UNCHANGED <<db_balance, ledger, clock, ncalls, instance>>

\* ------------------------------------------- the transfer: mutation and commit

\* The flush: every loaded row whose balance the session changed is written.
Flushed(db, r) ==
    [a \in DOMAIN db |->
        IF a \in DOMAIN r.sess /\ r.sess[a] # r.loaded[a] THEN r.sess[a] ELSE db[a]]

\* The pending record is inserted twice.
Inserted_Twice(l, pending) ==
    IF pending = <<>> THEN l
    ELSE Append(Append(l, [id |-> Len(l) + 1, rec |-> pending[1]]),
                [id |-> Len(l) + 2, rec |-> pending[1]])

\* The pending records get their ids and are inserted.
Inserted(l, pending) ==
    IF pending = <<>> THEN l
    ELSE Append(l, [id |-> Len(l) + 1, rec |-> pending[1]])

\* self.db.commit() succeeds: balances and record become persistent in one
\* database transaction; self.db.refresh(new_transaction).
CommitOk(t) ==
    /\ th[t].pc = "commit"
    /\ db_balance' = Flushed(db_balance, th[t])
    /\ ledger' = Inserted(ledger, th[t].pending)
    /\ th' = [th EXCEPT ![t].pc = "notify",
                        ![t].result = <<ledger'[Len(ledger')]>>]
    /\ UNCHANGED <<current_api, clock, ncalls, instance>>

\* The failed commit leaves the balance updates written.
CommitFail_Partial(t) ==
    /\ th[t].pc = "commit"
    /\ db_balance' = Flushed(db_balance, th[t])
    /\ th' = [th EXCEPT ![t] = Raise(@, Error(ErrCommit))]
    /\ UNCHANGED <<ledger, current_api, clock, ncalls, instance>>

\* self.db.commit() raises: the database transaction is rolled back.
CommitFail(t) ==
    /\ th[t].pc = "commit"
    /\ th' = [th EXCEPT ![t] = Raise(@, Error(ErrCommit))]
    /\ UNCHANGED <<db_balance, ledger, current_api, clock, ncalls, instance>>

\* The exception of the notification leaves create_new_transaction.
Notify_Raises(t) ==
    /\ th[t].pc = "notify"
    /\ \/ th' = [th EXCEPT ![t].pc = "done", ![t].status = "returned",
                            ![t].receiver =
                                AccountRows[th[t].destination_account_id].user_id,
                            ![t].notices = <<[to |-> th[t].user, is_sender |-> TRUE]>>,
                            ![t].notified = "sent"]
       \/ th' = [th EXCEPT ![t] =
                   Raise([@ EXCEPT !.notified = "failed", !.result = <<>>],
                         Error("notification failed"))]
    /\ UNCHANGED <<db_balance, ledger, current_api, clock, ncalls, instance>>

\* send_transaction_notification(current_user.email, ..., is_sender=True)
Notice(user, is_sender) == [to |-> user, is_sender |-> is_sender]

\* The service notifies whatever use_mocked_exchange is.
Notify_Always(t) ==
    /\ th[t].pc = "notify"
    /\ \E sent \in {"sent", "failed"} :
          th' = [th EXCEPT ![t].pc = "done", ![t].status = "returned",
                           ![t].receiver =
                               AccountRows[th[t].destination_account_id].user_id,
                           ![t].notices = <<Notice(th[t].user, TRUE)>>,
                           ![t].notified = sent]
    /\ UNCHANGED <<db_balance, ledger, current_api, clock, ncalls, instance>>

\* if not self.use_mocked_exchange: the receiver is queried and one notification
\* is sent, to the sender; the query or the sending may raise, which the except
\* clause swallows.  The transaction is returned either way.
Notify(t) ==
    /\ th[t].pc = "notify"
    /\ IF th[t].use_mocked_exchange
       THEN th' = [th EXCEPT ![t].pc = "done", ![t].status = "returned"]
       ELSE \/ \E sent \in {"sent", "failed"} :
                  th' = [th EXCEPT ![t].pc = "done", ![t].status = "returned",
                                   ![t].receiver =
                                       AccountRows[th[t].destination_account_id].user_id,
                                   ![t].notices = <<Notice(th[t].user, TRUE)>>,
                                   ![t].notified = sent]
            \/ th' = [th EXCEPT ![t].pc = "done", ![t].status = "returned",
                                ![t].notified = "failed"]
    /\ UNCHANGED <<db_balance, ledger, current_api, clock, ncalls, instance>>

\* ------------------------------------------ AccountService.deposit_to_account

BeginDeposit(t) ==
    /\ Free(t)
    /\ ncalls < MaxCalls
    /\ \E id \in RequestAccountIds, a \in DepositAmounts :
          th' = [th EXCEPT ![t] =
                   [IdleThread EXCEPT !.pc = "dep_validate", !.op = "deposit",
                                      !.account_id = id, !.amount = a,
                                      !.pre_balance = db_balance,
                                      !.pre_ledger = ledger,
                                      !.pre_api = current_api]]
    /\ ncalls' = ncalls + 1
    /\ UNCHANGED <<db_balance, ledger, current_api, clock, instance>>

\* A deposit of 0 passes the validation.
DepValidate_ZeroAllowed(t) ==
    /\ th[t].pc = "dep_validate"
    /\ IF th[t].amount < 0
       THEN th' = [th EXCEPT ![t] = Raise(@, Error(ErrDepositAmount))]
       ELSE th' = [th EXCEPT ![t].pc = "dep_query"]
    /\ UNCHANGED <<db_balance, ledger, current_api, clock, ncalls, instance>>

\* if amount <= 0: raise ValueError(...)
DepValidate(t) ==
    /\ th[t].pc = "dep_validate"
    /\ IF th[t].amount <= 0
       THEN th' = [th EXCEPT ![t] = Raise(@, Error(ErrDepositAmount))]
       ELSE th' = [th EXCEPT ![t].pc = "dep_query"]
    /\ UNCHANGED <<db_balance, ledger, current_api, clock, ncalls, instance>>

\* A deposit to an account that does not exist returns without an error.
DepQuery_Silent(t) ==
    /\ th[t].pc = "dep_query"
    /\ LET id == th[t].account_id IN
       IF id \in AccountIds
       THEN th' = [th EXCEPT ![t].pc = "dep_commit",
                             ![t].loaded = Load(@, id, db_balance[id]),
                             ![t].sess = Credit(Load(@, id, db_balance[id]), id,
                                                th[t].amount)]
       ELSE th' = [th EXCEPT ![t].pc = "done", ![t].status = "returned"]
    /\ UNCHANGED <<db_balance, ledger, current_api, clock, ncalls, instance>>

\* The account is queried by id; account.balance += amount; self.db.add(account)
DepQuery(t) ==
    /\ th[t].pc = "dep_query"
    /\ LET id == th[t].account_id IN
       IF id \in AccountIds
       THEN th' = [th EXCEPT ![t].pc = "dep_commit",
                             ![t].loaded = Load(@, id, db_balance[id]),
                             ![t].sess = Credit(Load(@, id, db_balance[id]), id,
                                                th[t].amount)]
       ELSE th' = [th EXCEPT ![t] = Raise(@, Error(ErrDepositAccount))]
    /\ UNCHANGED <<db_balance, ledger, current_api, clock, ncalls, instance>>

\* The account is returned with the balance it was loaded with.
DepCommitOk_Stale(t) ==
    /\ th[t].pc = "dep_commit"
    /\ db_balance' = Flushed(db_balance, th[t])
    /\ th' = [th EXCEPT ![t].pc = "done", ![t].status = "returned",
                        ![t].account = <<[id |-> th[t].account_id,
                                          balance |-> th[t].loaded[th[t].account_id]]>>]
    /\ UNCHANGED <<ledger, current_api, clock, ncalls, instance>>

\* self.db.commit(); self.db.refresh(account); return account
DepCommitOk(t) ==
    /\ th[t].pc = "dep_commit"
    /\ db_balance' = Flushed(db_balance, th[t])
    /\ th' = [th EXCEPT ![t].pc = "done", ![t].status = "returned",
                        ![t].account = <<[id |-> th[t].account_id,
                                          balance |-> db_balance'[th[t].account_id]]>>]
    /\ UNCHANGED <<ledger, current_api, clock, ncalls, instance>>

DepCommitFail(t) ==
    /\ th[t].pc = "dep_commit"
    /\ th' = [th EXCEPT ![t] = Raise(@, Error(ErrCommit))]
    /\ UNCHANGED <<db_balance, ledger, current_api, clock, ncalls, instance>>

\* ------------------------------------ TransactionService.get_user_transactions

\* A caller invokes get_user_transactions(user_id) of a TransactionService.
BeginList(t) ==
    /\ Free(t)
    /\ ncalls < MaxCalls
    /\ \E u \in Users :
          th' = [th EXCEPT ![t] =
                   [IdleThread EXCEPT !.pc = "list_query", !.op = "list", !.user = u,
                                      !.pre_balance = db_balance,
                                      !.pre_ledger = ledger,
                                      !.pre_api = current_api]]
    /\ ncalls' = ncalls + 1
    /\ UNCHANGED <<db_balance, ledger, current_api, clock, instance>>

\* (Transaction.sender_id == user_id) | (Transaction.receiver_id == user_id)
Involves(x, user) == x.rec.sender_id = user \/ x.rec.receiver_id = user

RECURSIVE Filter(_, _)
Filter(l, user) ==
    IF l = <<>> THEN <<>>
    ELSE IF Involves(Head(l), user) THEN <<Head(l)>> \o Filter(Tail(l), user)
         ELSE Filter(Tail(l), user)

\* x goes before the first record that is not older than x.
RECURSIVE InsertDesc_Asc(_, _)
InsertDesc_Asc(x, l) ==
    IF l = <<>> THEN <<x>>
    ELSE IF x.rec.timestamp <= Head(l).rec.timestamp THEN <<x>> \o l
         ELSE <<Head(l)>> \o InsertDesc_Asc(x, Tail(l))

\* x goes before the first record that is not newer than x.
RECURSIVE InsertDesc(_, _)
InsertDesc(x, l) ==
    IF l = <<>> THEN <<x>>
    ELSE IF x.rec.timestamp >= Head(l).rec.timestamp THEN <<x>> \o l
         ELSE <<Head(l)>> \o InsertDesc(x, Tail(l))

\* order_by(Transaction.timestamp.desc())
RECURSIVE OrderByTimestampDesc(_)
OrderByTimestampDesc(l) ==
    IF l = <<>> THEN <<>>
    ELSE InsertDesc(Head(l), OrderByTimestampDesc(Tail(l)))

ListQuery(t) ==
    /\ th[t].pc = "list_query"
    /\ th' = [th EXCEPT ![t].pc = "done", ![t].status = "returned",
                        ![t].result = OrderByTimestampDesc(Filter(ledger, th[t].user))]
    /\ UNCHANGED <<db_balance, ledger, current_api, clock, ncalls, instance>>

\* ------------------------------------------------------- the listing route

\* def __init__(self, db: Session, use_mocked_exchange: bool): no default value
InitParameters == {"db", "use_mocked_exchange"}

\* transaction_service = TransactionService(db)
ListRouteArguments == {"db"}

\* TypeError
ErrMissingArgument ==
    "__init__() missing 1 required positional argument: 'use_mocked_exchange'"

\* A request of an authenticated user reaches the listing route.
BeginListRoute(t) ==
    /\ Free(t)
    /\ ncalls < MaxCalls
    /\ \E u \in Users :
          th' = [th EXCEPT ![t] =
                   [IdleThread EXCEPT !.pc = "route_construct", !.op = "list_route",
                                      !.user = u,
                                      !.pre_balance = db_balance,
                                      !.pre_ledger = ledger,
                                      !.pre_api = current_api]]
    /\ ncalls' = ncalls + 1
    /\ UNCHANGED <<db_balance, ledger, current_api, clock, instance>>

\* The route builds the service with the arguments it passes: a call that
\* leaves a required parameter without value raises TypeError, which the route
\* does not catch; otherwise the route goes on to get_user_transactions.
RouteConstruct(t) ==
    /\ th[t].pc = "route_construct"
    /\ IF InitParameters \subseteq ListRouteArguments
       THEN th' = [th EXCEPT ![t].pc = "list_query"]
       ELSE th' = [th EXCEPT ![t] = Raise(@, Error(ErrMissingArgument))]
    /\ UNCHANGED <<db_balance, ledger, current_api, clock, ncalls, instance>>

\* ------------------------------------------------- ExchangeService.switch_api

\* How many times in a row a caller applies switch_api.
SwitchTimes == {1, 2}

\* A caller asks the shared resolver to switch providers, once or twice in a row.
BeginSwitch(t) ==
    /\ Free(t)
    /\ ncalls < MaxCalls
    /\ \E n \in SwitchTimes :
          th' = [th EXCEPT ![t] =
                   [IdleThread EXCEPT !.pc = "switch_pick", !.op = "switch",
                                      !.times = n,
                                      !.pre_balance = db_balance,
                                      !.pre_ledger = ledger,
                                      !.pre_api = New(current_api)]]
    /\ ncalls' = ncalls + 1
    /\ current_api' = New(current_api)
    /\ instance' = Constructed(instance)
    /\ UNCHANGED <<db_balance, ledger, clock>>

\* self._fallback_api if self._current_api == self._primary_api else self._primary_api
SwitchPick(t) ==
    /\ th[t].pc = "switch_pick"
    /\ th' = [th EXCEPT ![t].pc = "switch_store", ![t].picked = OtherApi(current_api)]
    /\ UNCHANGED <<db_balance, ledger, current_api, clock, ncalls, instance>>

\* switch_api makes the primary current.
SwitchStore_Reset(t) ==
    /\ th[t].pc = "switch_store"
    /\ current_api' = "primary"
    /\ IF th[t].switches + 1 < th[t].times
       THEN th' = [th EXCEPT ![t].pc = "switch_pick", ![t].switches = @ + 1]
       ELSE th' = [th EXCEPT ![t].pc = "done", ![t].status = "returned",
                             ![t].switches = @ + 1]
    /\ UNCHANGED <<db_balance, ledger, clock, ncalls, instance>>

\* self._current_api = <the provider picked>; the caller applies switch_api
\* again or is done.
SwitchStore(t) ==
    /\ th[t].pc = "switch_store"
    /\ current_api' = th[t].picked
    /\ IF th[t].switches + 1 < th[t].times
       THEN th' = [th EXCEPT ![t].pc = "switch_pick", ![t].switches = @ + 1]
       ELSE th' = [th EXCEPT ![t].pc = "done", ![t].status = "returned",
                             ![t].switches = @ + 1]
    /\ UNCHANGED <<db_balance, ledger, clock, ncalls, instance>>

\* ----------------------------------- ExchangeService.get_supported_currencies

\* The codes each provider reports as supported.
ProviderCurrencies == [primary |-> {"USD", "EUR"}, fallback |-> {"GBP"}]

ErrProvider == "provider failed"

\* A caller asks the shared resolver for the supported currencies.
BeginSupported(t) ==
    /\ Free(t)
    /\ ncalls < MaxCalls
    /\ th' = [th EXCEPT ![t] =
                [IdleThread EXCEPT !.pc = "supported", !.op = "currencies",
                                   !.pre_balance = db_balance,
                                   !.pre_ledger = ledger,
                                   !.pre_api = New(current_api)]]
    /\ ncalls' = ncalls + 1
    /\ current_api' = New(current_api)
    /\ instance' = Constructed(instance)
    /\ UNCHANGED <<db_balance, ledger, clock>>

\* The primary is asked whichever provider is current.
GetSupportedCurrencies_Primary(t) ==
    /\ th[t].pc = "supported"
    /\ \/ th' = [th EXCEPT ![t].pc = "done", ![t].status = "returned",
                            ![t].attempts = <<Attempt("primary", TRUE, 0)>>,
                            ![t].result = <<ProviderCurrencies["primary"]>>]
       \/ th' = [th EXCEPT ![t] =
                   Raise([@ EXCEPT !.attempts = <<Attempt("primary", FALSE, 0)>>],
                         Error(ErrProvider))]
    /\ UNCHANGED <<db_balance, ledger, current_api, clock, ncalls, instance>>

\* return self._current_api.get_supported_currencies(): the provider answers, or
\* raises, which get_supported_currencies does not catch.
GetSupportedCurrencies(t) ==
    /\ th[t].pc = "supported"
    /\ \/ th' = [th EXCEPT ![t].pc = "done", ![t].status = "returned",
                            ![t].attempts = <<Attempt(current_api, TRUE, 0)>>,
                            ![t].result = <<ProviderCurrencies[current_api]>>]
       \/ th' = [th EXCEPT ![t] =
                   Raise([@ EXCEPT !.attempts = <<Attempt(current_api, FALSE, 0)>>],
                         Error(ErrProvider))]
    /\ UNCHANGED <<db_balance, ledger, current_api, clock, ncalls, instance>>

\* ------------------------------------------ MockExchangeService.get_exchange_rate

\* A caller asks the mock resolver for the rate of a pair of codes.
BeginMockRate(t) ==
    /\ Free(t)
    /\ ncalls < MaxCalls
    /\ \E f \in MockCodes, c \in MockCodes :
          th' = [th EXCEPT ![t] =
                   [IdleThread EXCEPT !.pc = "mock_lookup", !.op = "mock_rate",
                                      !.from_currency = f, !.to_currency = c,
                                      !.pre_balance = db_balance,
                                      !.pre_ledger = ledger,
                                      !.pre_api = current_api]]
    /\ ncalls' = ncalls + 1
    /\ UNCHANGED <<db_balance, ledger, current_api, clock, instance>>

\* The lookup returns a rate or raises.
MockLookup(t) ==
    /\ th[t].pc = "mock_lookup"
    /\ LET out == MockGetExchangeRate(th[t].from_currency, th[t].to_currency) IN
       IF out.raised
       THEN th' = [th EXCEPT ![t] = Raise(@, out.error)]
       ELSE th' = [th EXCEPT ![t].pc = "done", ![t].status = "returned",
                             ![t].result = <<out.rate>>]
    /\ UNCHANGED <<db_balance, ledger, current_api, clock, ncalls, instance>>

\* ------------------------------------------------- ExchangeService.__new__

ErrNoPrimary == "'ExchangeService' object has no attribute '_primary_api'"

\* A thread calls ExchangeService().
BeginNew(t) ==
    /\ Free(t)
    /\ ncalls < MaxCalls
    /\ th' = [th EXCEPT ![t] =
                [IdleThread EXCEPT !.pc = "new_check", !.op = "construct",
                                   !.pre_balance = db_balance,
                                   !.pre_ledger = ledger,
                                   !.pre_api = current_api]]
    /\ ncalls' = ncalls + 1
    /\ UNCHANGED <<db_balance, ledger, current_api, clock, instance>>

\* if cls._instance is None:
NewCheck(t) ==
    /\ th[t].pc = "new_check"
    /\ th' = [th EXCEPT ![t].pc =
                IF instance.id = 0 THEN "new_create" ELSE "new_return"]
    /\ UNCHANGED <<db_balance, ledger, current_api, clock, ncalls, instance>>

\* cls._instance = super().__new__(cls): a new object, with no attribute yet, is
\* what the class attribute refers to from now on.
NewCreate(t) ==
    /\ th[t].pc = "new_create"
    /\ instance' = [id |-> instance.id + 1,
                    primary_api |-> FALSE, fallback_api |-> FALSE]
    /\ current_api' = "none"
    /\ th' = [th EXCEPT ![t].pc = "new_primary"]
    /\ UNCHANGED <<db_balance, ledger, clock, ncalls>>

\* cls._instance._primary_api = ExchangeRateAPI(): set on the object the class
\* attribute refers to now.
NewPrimary(t) ==
    /\ th[t].pc = "new_primary"
    /\ instance' = [instance EXCEPT !.primary_api = TRUE]
    /\ th' = [th EXCEPT ![t].pc = "new_fallback"]
    /\ UNCHANGED <<db_balance, ledger, current_api, clock, ncalls>>

\* cls._instance._fallback_api = CurrencyConverterAPI()
NewFallback(t) ==
    /\ th[t].pc = "new_fallback"
    /\ instance' = [instance EXCEPT !.fallback_api = TRUE]
    /\ th' = [th EXCEPT ![t].pc = "new_current"]
    /\ UNCHANGED <<db_balance, ledger, current_api, clock, ncalls>>

\* cls._instance._current_api = cls._instance._primary_api: reading an attribute
\* the object does not have raises AttributeError.
NewCurrent(t) ==
    /\ th[t].pc = "new_current"
    /\ IF instance.primary_api
       THEN /\ current_api' = "primary"
            /\ th' = [th EXCEPT ![t].pc = "new_return"]
       ELSE /\ current_api' = current_api
            /\ th' = [th EXCEPT ![t] = Raise(@, Error(ErrNoPrimary))]
    /\ UNCHANGED <<db_balance, ledger, clock, ncalls, instance>>

\* return cls._instance: the caller obtains the object the class attribute
\* refers to now, with the attributes it has now.
NewReturn(t) ==
    /\ th[t].pc = "new_return"
    /\ th' = [th EXCEPT ![t].pc = "done", ![t].status = "returned",
                        ![t].service = instance.id,
                        ![t].complete = /\ instance.primary_api
                                        /\ instance.fallback_api
                                        /\ current_api # "none"]
    /\ UNCHANGED <<db_balance, ledger, current_api, clock, ncalls, instance>>

\* --------------------------------------------------------------- behaviours

\* A step of a create_new_transaction call in progress.
TransferStep(t) ==
    \/ QuerySource(t)
    \/ QueryDestination(t)
    \/ ExFirstOk(t)
    \/ ExFirstFail(t)
    \/ ExSaveOld(t)
    \/ ExPickOther(t)
    \/ ExStore(t)
    \/ ExSecondOk(t)
    \/ ExSecondFail(t)
    \/ ExRestore(t)
    \/ CommitOk(t)
    \/ CommitFail(t)
    \/ Notify(t)

\* A step of a call in progress.
Step(t) ==
    \/ TransferStep(t)
    \/ DepValidate(t)
    \/ DepQuery(t)
    \/ DepCommitOk(t)
    \/ DepCommitFail(t)
    \/ ListQuery(t)
    \/ SwitchPick(t)
    \/ SwitchStore(t)
    \/ GetSupportedCurrencies(t)

Begin(t) ==
    \/ BeginTransfer(t)
    \/ BeginDeposit(t)
    \/ BeginList(t)
    \/ BeginSwitch(t)
    \/ BeginSupported(t)

\* The response has been sent; the thread goes back to the pool.
Return(t) ==
    /\ th[t].pc = "done"
    /\ th' = [th EXCEPT ![t] = IdleThread]
    /\ UNCHANGED <<db_balance, ledger, current_api, clock, ncalls, instance>>

\* Requests are handled concurrently.
Next == \E t \in Threads : Begin(t) \/ Step(t) \/ Return(t)

Spec == Init /\ [][Next]_vars

\* Requests are handled one at a time: a call starts when no call is in progress.
NextSeq == \E t \in Threads : (Quiet /\ Begin(t)) \/ Step(t) \/ Return(t)

SpecSeq == Init /\ [][NextSeq]_vars

\* Calls one at a time, where the store and the providers answer every call
\* made to them and every thread that can take a step takes it in the end.
SpecLive == Init /\ [][NextSeq]_vars /\ \A t \in Threads : WF_vars(Step(t))

\* The requests of the two transaction routes, among them requests on an
\* account whose currency row is missing, handled one at a time.
NextRoutes ==
    \E t \in Threads :
        \/ Quiet /\ (BeginTransfer(t) \/ BeginMockedTransfer(t) \/ BeginOrphanTransfer(t))
        \/ TransferStep(t)
        \/ Return(t)

SpecRoutes == Init /\ [][NextRoutes]_vars

\* Threads construct ExchangeService() concurrently, the first constructions of
\* the process among them.
NextNew ==
    \E t \in Threads :
        \/ BeginNew(t)
        \/ NewCheck(t)
        \/ NewCreate(t)
        \/ NewPrimary(t)
        \/ NewFallback(t)
        \/ NewCurrent(t)
        \/ NewReturn(t)
        \/ Return(t)

SpecNew == Init /\ [][NextNew]_vars

\* The listing over a table of records. The table holds up to MaxRecords
\* transfers of 60, committed in any order of their timestamps, each account
\* having been funded by deposits beforehand.
MaxRecords == 3

\* user 1 to user 2, user 2 to user 2, user 1 to user 1
ListRequests ==
    {[IdleThread EXCEPT !.user = 1, !.source_account_id = 1,
                        !.destination_account_id = 3, !.amount = 60,
                        !.exchange_rate = 1, !.destination_amount = 60],
     [IdleThread EXCEPT !.user = 2, !.source_account_id = 3,
                        !.destination_account_id = 2, !.amount = 60,
                        !.exchange_rate = 2, !.destination_amount = 120],
     [IdleThread EXCEPT !.user = 1, !.source_account_id = 1,
                        !.destination_account_id = 1, !.amount = 60,
                        !.exchange_rate = 1, !.destination_amount = 60]}

ListRecords ==
    {[id |-> 0, rec |-> NewTransaction(q, ts)] : q \in ListRequests, ts \in 1..MaxRecords}

\* The records in insert order, with their ids.
Numbered(l) == [i \in 1..Len(l) |-> [l[i] EXCEPT !.id = i]]

ListLedgers ==
    UNION {{Numbered(l) : l \in {m \in [1..n -> ListRecords] :
                                   \A i, j \in 1..n :
                                       i # j => m[i].rec.timestamp # m[j].rec.timestamp}}
           : n \in 0..MaxRecords}

\* The balances after the records of l, from the balances b.
RECURSIVE Posted(_, _)
Posted(b, l) ==
    IF l = <<>> THEN b
    ELSE Posted(Credit(Debit(b, Head(l).rec.source_account_id,
                             Head(l).rec.source_amount),
                       Head(l).rec.destination_account_id,
                       Head(l).rec.destination_amount),
                Tail(l))

Funded == [a \in AccountIds |-> InitialBalance[a] + MaxRecords * 60]

InitList ==
    /\ ledger \in ListLedgers
    /\ db_balance = Posted(Funded, ledger)
    /\ current_api = "primary"
    /\ clock = MaxRecords + 1
    /\ ncalls = 0
    /\ th = [t \in Threads |-> IdleThread]
    /\ instance = Constructed(NoInstance)

NextList ==
    \E t \in Threads :
        \/ BeginList(t)
        \/ BeginListRoute(t)
        \/ RouteConstruct(t)
        \/ ListQuery(t)
        \/ Return(t)

SpecList == InitList /\ [][NextList]_vars

\* Calls of the mock resolver only.
NextMock == \E t \in Threads : BeginMockRate(t) \/ MockLookup(t) \/ Return(t)

SpecMock == Init /\ [][NextMock]_vars

\* ------------------------------------------------------------------ claims

Transfers == {t \in Threads : th[t].op = "transfer"}

\* The transfer of thread t has been committed.
Committed(t) ==
    /\ th[t].op = "transfer"
    /\ th[t].pc = "notify" \/ (th[t].pc = "done" /\ th[t].status = "returned")

\* The call of thread t has ended with the error message m.
Failed(t, m) == th[t].pc = "done" /\ th[t].status = "raised" /\ th[t].error.msg = m

\* C1: two concurrent transfers that debit the same source account, each within
\* the balance both found and together above it, never both succeed.
C1_NeverBothSucceed ==
    \A t \in Threads, u \in Threads :
        ( /\ t # u
          /\ th[t].op = "transfer" /\ th[u].op = "transfer"
          /\ th[t].pc = "done" /\ th[u].pc = "done"
          /\ th[t].source_account_id = th[u].source_account_id
          /\ th[t].source_account_id # th[t].destination_account_id
          /\ th[u].source_account_id # th[u].destination_account_id
          /\ th[t].pre_balance = th[u].pre_balance
          /\ th[t].amount > 0 /\ th[u].amount > 0
          /\ th[t].source_account_id \in AccountIds
          /\ th[t].amount <= th[t].pre_balance[th[t].source_account_id]
          /\ th[u].amount <= th[t].pre_balance[th[t].source_account_id]
          /\ th[t].amount + th[u].amount > th[t].pre_balance[th[t].source_account_id] )
        => ~(th[t].status = "returned" /\ th[u].status = "returned")

\* C2 as stated: after a committed transfer of amount a > 0 at rate r the source
\* balance is its balance before the call minus a and the destination balance is
\* its balance before the call plus a*r.
C2_BalancesAfterTransfer ==
    \A t \in Threads : (Committed(t) /\ th[t].amount > 0) =>
        /\ db_balance[th[t].source_account_id]
              = th[t].pre_balance[th[t].source_account_id] - th[t].amount
        /\ db_balance[th[t].destination_account_id]
              = th[t].pre_balance[th[t].destination_account_id]
                  + th[t].amount * th[t].result[1].rec.exchange_rate

\* C2 amended: the same, for a transfer between two different accounts.
C2_BalancesAfterTransferDistinct ==
    \A t \in Threads :
        (Committed(t)
           /\ th[t].source_account_id # th[t].destination_account_id) =>
        /\ db_balance[th[t].source_account_id]
              = th[t].pre_balance[th[t].source_account_id] - th[t].amount
        /\ db_balance[th[t].destination_account_id]
              = th[t].pre_balance[th[t].destination_account_id]
                  + th[t].amount * th[t].result[1].rec.exchange_rate

C2_Witness ==
    \E t \in Threads :
        /\ Committed(t) /\ th[t].pc = "done"
        /\ th[t].source_account_id # th[t].destination_account_id
        /\ th[t].amount > 0
        /\ th[t].result[1].rec.exchange_rate \in ApiRates.fallback

\* Every recorded transfer had an amount > 0.
OnlyPositiveTransfers == \A i \in 1..Len(ledger) : ledger[i].rec.source_amount > 0

\* C3: with calls made one at a time from non-negative balances and every
\* transfer amount > 0, no balance is ever below 0, and a transfer goes on to its
\* debit only with a source balance >= amount at the check.
C3_SourceNeverNegative ==
    /\ OnlyPositiveTransfers => \A a \in AccountIds : db_balance[a] >= 0
    /\ \A t \in Threads :
          (th[t].op = "transfer" /\ th[t].pc \in {"commit", "notify"}) =>
              th[t].loaded[th[t].source_account_id] >= th[t].amount

C3_Witness ==
    /\ OnlyPositiveTransfers
    /\ \E t \in Threads :
          /\ Committed(t)
          /\ th[t].source_account_id # th[t].destination_account_id
          /\ th[t].pre_balance[th[t].source_account_id] = th[t].amount
          /\ db_balance[th[t].source_account_id] = 0

ValidationErrors == {ErrSource, ErrDestination, ErrBalance, ErrRate}

\* C4: a transfer that fails in validation or rate resolution leaves every
\* balance and the transaction records as the call found them.
C4_FailedTransferChangesNothing ==
    \A t \in Threads :
        (th[t].op = "transfer" /\ \E m \in ValidationErrors : Failed(t, m)) =>
            db_balance = th[t].pre_balance /\ ledger = th[t].pre_ledger

C4_Witness ==
    /\ ledger # <<>>
    /\ \E t \in Threads : th[t].op = "transfer" /\ Failed(t, ErrRate)

\* The transfer of thread t is past the balance check, both accounts found.
Checked(t) ==
    /\ th[t].op = "transfer"
    /\ th[t].pc \notin {"idle", "query_source", "query_destination"}
    /\ th[t].source_account_id \in DOMAIN th[t].loaded
    /\ th[t].destination_account_id \in DOMAIN th[t].loaded

\* C5 as stated: with both accounts found the transfer fails with the
\* insufficient-balance error exactly when the source balance is below the amount
\* at the check, and a committed transfer of the whole balance (> 0) leaves the
\* source at 0.
C5_InsufficientExactlyWhenBelow ==
    \A t \in Threads :
        /\ Checked(t) =>
              (th[t].error.msg = ErrBalance
                  <=> th[t].loaded[th[t].source_account_id] < th[t].amount)
        /\ (Committed(t) /\ th[t].amount > 0
              /\ th[t].amount = th[t].pre_balance[th[t].source_account_id]) =>
              db_balance[th[t].source_account_id] = 0

\* C5 amended: the same, the whole balance going to a different account.
C5_InsufficientExactlyWhenBelowDistinct ==
    \A t \in Threads :
        /\ Checked(t) =>
              (th[t].error.msg = ErrBalance
                  <=> th[t].loaded[th[t].source_account_id] < th[t].amount)
        /\ (Committed(t)
              /\ th[t].source_account_id # th[t].destination_account_id
              /\ th[t].amount = th[t].pre_balance[th[t].source_account_id]) =>
              db_balance[th[t].source_account_id] = 0

C5_Witness ==
    \E t \in Threads :
        /\ Committed(t)
        /\ th[t].amount = 100
        /\ th[t].amount = th[t].pre_balance[th[t].source_account_id]
        /\ th[t].source_account_id # th[t].destination_account_id
        /\ db_balance[th[t].source_account_id] = 0

\* What the transfer of record r adds to the balance of account x.
Effect(r, x) ==
    (IF x = r.source_account_id THEN 0 - r.amount ELSE 0)
      + (IF x = r.destination_account_id THEN r.destination_amount ELSE 0)

\* None of the three effects of the transfer of thread t is persistent.
NoEffect(t) == db_balance = th[t].pre_balance /\ ledger = th[t].pre_ledger

\* The debit, the credit and the record of the transfer of thread t are persistent.
AllEffects(t) ==
    /\ Len(ledger) = Len(th[t].pre_ledger) + 1
    /\ SubSeq(ledger, 1, Len(th[t].pre_ledger)) = th[t].pre_ledger
    /\ ledger[Len(ledger)].rec.source_account_id = th[t].source_account_id
    /\ ledger[Len(ledger)].rec.destination_account_id = th[t].destination_account_id
    /\ ledger[Len(ledger)].rec.source_amount = th[t].amount
    /\ \A x \in AccountIds : db_balance[x] = th[t].pre_balance[x] + Effect(th[t], x)

\* C6: the debit, the credit and the record of a transfer become persistent
\* together or not at all; after a failed commit none of them is.
C6_CommitAtomic ==
    \A t \in Transfers :
        /\ NoEffect(t) \/ AllEffects(t)
        /\ Failed(t, ErrCommit) => NoEffect(t)
        /\ Committed(t) => AllEffects(t)

C6_Witness ==
    \E t \in Transfers :
        /\ Failed(t, ErrCommit)
        /\ th[t].sess[th[t].source_account_id] # db_balance[th[t].source_account_id]
        /\ th[t].pending # <<>>

\* C7: a committed transfer has added exactly one record, every other call none,
\* and no step changes or removes a record.
C7_LedgerAppendOnly ==
    /\ [](\A t \in Threads :
            /\ Committed(t) => ledger = Append(th[t].pre_ledger, th[t].result[1])
            /\ (th[t].pc = "done" /\ ~Committed(t)) => ledger = th[t].pre_ledger)
    /\ [][/\ Len(ledger') \in {Len(ledger), Len(ledger) + 1}
          /\ SubSeq(ledger', 1, Len(ledger)) = ledger]_vars

C7_Witness ==
    /\ Len(ledger) = 1
    /\ \E t \in Threads :
          th[t].op = "deposit" /\ th[t].pc = "done" /\ th[t].status = "returned"

\* The call of thread t asked a provider twice: the first failed, the second
\* answered.
FailedOver(t) ==
    /\ th[t].op = "transfer"
    /\ Len(th[t].attempts) = 2
    /\ ~th[t].attempts[1].ok
    /\ th[t].attempts[2].ok

\* C8: when the current provider fails and the other answers, the rate is the
\* other provider's and the other provider is current afterwards, from the
\* primary to the fallback and from the fallback to the primary.
C8_Failover ==
    \A t \in Threads : FailedOver(t) =>
        /\ th[t].attempts[1].api = th[t].pre_api
        /\ th[t].pre_api = "primary" =>
              /\ th[t].attempts[2].api = "fallback"
              /\ th[t].exchange_rate \in ApiRates.fallback
              /\ current_api = "fallback"
        /\ th[t].pre_api = "fallback" =>
              /\ th[t].attempts[2].api = "primary"
              /\ th[t].exchange_rate \in ApiRates.primary
              /\ current_api = "primary"

C8_Witness ==
    \E t \in Threads :
        /\ FailedOver(t)
        /\ th[t].pre_api = "fallback"
        /\ current_api = "primary"
        /\ th[t].pc = "done" /\ th[t].status = "returned"

\* C9: when both providers fail, the call run alone raises an error naming the
\* source and the destination currency code, and the current provider is the one
\* the call found.
C9_BothFailRestores ==
    \A t \in Threads : (th[t].op = "transfer" /\ Failed(t, ErrRate)) =>
        /\ th[t].error.from
              = CurrencyCode[AccountRows[th[t].source_account_id].currency_id]
        /\ th[t].error.to
              = CurrencyCode[AccountRows[th[t].destination_account_id].currency_id]
        /\ Len(th[t].attempts) = 2
        /\ current_api = th[t].pre_api

C9_Witness ==
    \E t \in Threads :
        /\ th[t].op = "transfer" /\ Failed(t, ErrRate)
        /\ th[t].pre_api = "fallback"
        /\ th[t].error.from = "EUR" /\ th[t].error.to = "USD"

\* C10: when every thread has made one call, all of them concurrent
\* get_exchange_rate calls in which every provider call failed, the current
\* provider is the one in effect before the first call, the primary.
C10_CurrentRestoredConcurrently ==
    (ncalls = Cardinality(Threads)
       /\ \A t \in Threads : th[t].op = "transfer" /\ Failed(t, ErrRate))
    => current_api = "primary"

\* C11: the current provider changes only in a step of switch_api or of a
\* get_exchange_rate call whose first attempt failed, so a call that succeeds at
\* once never resets it; and the first attempt of every call is made on the
\* provider that is current, which after a failover that succeeded is the other
\* provider.
C11_FailoverSticky ==
    /\ [](\A t \in Transfers :
            /\ Len(th[t].attempts) >= 1 => th[t].attempts[1].api = th[t].pre_api
            /\ (FailedOver(t) /\ th[t].pc = "done") =>
                  current_api = th[t].attempts[2].api)
    /\ [][\A t \in Threads : th'[t] # th[t] =>
            /\ (current_api # "none" /\ current_api' # current_api) =>
                  \/ th[t].op = "switch"
                  \/ /\ th[t].op = "transfer"
                     /\ Len(th[t].attempts) >= 1
                     /\ ~th[t].attempts[1].ok
            /\ (Len(th[t].attempts) = 0 /\ Len(th'[t].attempts) = 1) =>
                  th'[t].attempts[1].api = current_api]_vars

\* After a failover that succeeded, a later call asked the fallback first, was
\* answered, and the fallback is still current.
C11_Witness ==
    \E t \in Transfers :
        /\ Len(th[t].pre_ledger) = 1
        /\ th[t].pre_ledger[1].rec.exchange_rate \in ApiRates.fallback
        /\ th[t].pre_api = "fallback"
        /\ Len(th[t].attempts) = 1
        /\ th[t].attempts[1].api = "fallback"
        /\ th[t].attempts[1].ok
        /\ current_api = "fallback"

\* C12: when the provider that is current answers, the rate returned is the rate
\* that provider answered with, no other provider is asked, and the current
\* provider is the one it was.
C12_CurrentSucceeds ==
    \A t \in Transfers :
        (Len(th[t].attempts) >= 1 /\ th[t].attempts[1].ok) =>
            /\ Len(th[t].attempts) = 1
            /\ th[t].attempts[1].api = th[t].pre_api
            /\ th[t].attempts[1].rate \in ApiRates[th[t].pre_api]
            /\ th[t].exchange_rate = th[t].attempts[1].rate
            /\ current_api = th[t].pre_api

C12_Witness ==
    \E t \in Transfers :
        /\ Committed(t)
        /\ th[t].pre_api = "primary"
        /\ th[t].attempts = <<Attempt("primary", TRUE, 2)>>
        /\ th[t].exchange_rate = 2
        /\ current_api = "primary"

\* The codes of the currencies of the two accounts of a record.
SourceCode(x) == CurrencyCode[x.source_currency_id]
DestinationCode(x) == CurrencyCode[x.destination_currency_id]

\* Both accounts of the transfer were found and their currency codes are equal.
SameCodes(t) ==
    /\ SourceFound(th[t].source_account_id, th[t].user)
    /\ th[t].destination_account_id \in AccountIds
    /\ CurrencyCode[AccountRows[th[t].source_account_id].currency_id]
          = CurrencyCode[AccountRows[th[t].destination_account_id].currency_id]

\* C13: a transfer between accounts of equal currency codes never asks the rate
\* resolver; once past the balance check its rate is 1 and its destination
\* amount is the requested amount, and so are those of the record it commits.
C13_SameCodeNoResolver ==
    \A t \in Transfers : SameCodes(t) =>
        /\ th[t].attempts = <<>>
        /\ th[t].pc \notin {"ex_first", "ex_save", "ex_pick", "ex_store",
                             "ex_second", "ex_restore"}
        /\ th[t].error.msg # ErrRate
        /\ th[t].pending # <<>> =>
              /\ th[t].pending[1].exchange_rate = 1
              /\ th[t].pending[1].destination_amount = th[t].amount
        /\ Committed(t) =>
              /\ th[t].result[1].rec.exchange_rate = 1
              /\ th[t].result[1].rec.destination_amount = th[t].amount
              /\ th[t].result[1].rec.source_amount = th[t].amount

C13_Witness ==
    \E t \in Transfers :
        /\ SameCodes(t) /\ Committed(t) /\ th[t].pc = "done"
        /\ th[t].source_account_id = 1 /\ th[t].destination_account_id = 3
        /\ th[t].amount = 60
        /\ ledger[Len(ledger)].rec.exchange_rate = 1
        /\ ledger[Len(ledger)].rec.destination_amount = 60

\* C14 as stated: a record has exchange rate 1 exactly when its two currency
\* codes are equal.
C14_RateOneIffSameCode ==
    \A i \in 1..Len(ledger) :
        ledger[i].rec.exchange_rate = 1
            <=> SourceCode(ledger[i].rec) = DestinationCode(ledger[i].rec)

\* C14: every record whose two currency codes are equal has exchange rate 1, and
\* every record whose rate is not 1 has different codes.
C14_SameCodeRateOne ==
    \A i \in 1..Len(ledger) :
        /\ SourceCode(ledger[i].rec) = DestinationCode(ledger[i].rec)
              => ledger[i].rec.exchange_rate = 1
        /\ ledger[i].rec.exchange_rate # 1
              => SourceCode(ledger[i].rec) # DestinationCode(ledger[i].rec)

\* A record between equal codes and a record between different codes for which
\* a provider answered 1.
C14_Witness ==
    \E i, j \in 1..Len(ledger) :
        /\ SourceCode(ledger[i].rec) = DestinationCode(ledger[i].rec)
        /\ ledger[i].rec.exchange_rate = 1
        /\ SourceCode(ledger[j].rec) # DestinationCode(ledger[j].rec)
        /\ ledger[j].rec.exchange_rate = 1

\* The rate get_exchange_rate returned to the transfer: the answer of its last
\* attempt.
ResolverRate(t) == th[t].attempts[Len(th[t].attempts)].rate

\* C15: in every record the destination amount is the source amount times the
\* exchange rate; the source amount of the record a transfer commits is the
\* requested amount and its rate is the rate the resolver returned to that
\* transfer, or 1 when the codes are equal.
C15_DestinationAmount ==
    /\ \A i \in 1..Len(ledger) :
          ledger[i].rec.destination_amount
              = ledger[i].rec.source_amount * ledger[i].rec.exchange_rate
    /\ \A t \in Transfers : Committed(t) =>
          /\ th[t].result[1].rec.source_amount = th[t].amount
          /\ SameCodes(t) => th[t].result[1].rec.exchange_rate = 1
          /\ ~SameCodes(t) =>
                /\ th[t].attempts # <<>>
                /\ th[t].attempts[Len(th[t].attempts)].ok
                /\ th[t].result[1].rec.exchange_rate = ResolverRate(t)

C15_Witness ==
    \E t \in Transfers :
        /\ Committed(t) /\ FailedOver(t)
        /\ th[t].amount = 60
        /\ ResolverRate(t) = 3
        /\ ledger[Len(ledger)].rec.source_amount = 60
        /\ ledger[Len(ledger)].rec.exchange_rate = 3
        /\ ledger[Len(ledger)].rec.destination_amount = 180

\* Every provider attempt of the one get_exchange_rate call of thread t failed.
ResolverFailed(t) ==
    /\ th[t].op = "transfer"
    /\ Len(th[t].attempts) = 2
    /\ ~th[t].attempts[1].ok
    /\ ~th[t].attempts[2].ok

\* C16: when the resolver fails, the call ends with the resolver's error, which
\* names the source code and the destination code in that order, the resolver
\* having been asked once (two provider attempts, one on each provider); the
\* call never reaches the commit: nothing is pending, nothing changed in the
\* session or in the database, and no transaction is returned.
C16_ResolverErrorPassedThrough ==
    \A t \in Transfers :
        /\ ResolverFailed(t) =>
              /\ th[t].pc \in {"ex_restore", "done"}
              /\ th[t].pc = "done" => Failed(t, ErrRate)
              /\ th[t].pending = <<>>
              /\ th[t].sess = th[t].loaded
              /\ th[t].result = <<>>
              /\ NoEffect(t)
        /\ Failed(t, ErrRate) =>
              /\ ResolverFailed(t)
              /\ ~SameCodes(t)
              /\ th[t].attempts[1].api # th[t].attempts[2].api
              /\ th[t].error
                    = RateError(
                        CurrencyCode[AccountRows[th[t].source_account_id].currency_id],
                        CurrencyCode[AccountRows[th[t].destination_account_id].currency_id])

C16_Witness ==
    \E t \in Transfers :
        /\ Failed(t, ErrRate)
        /\ th[t].source_account_id = 1 /\ th[t].destination_account_id = 2
        /\ th[t].amount = 60
        /\ th[t].error = RateError("USD", "EUR")
        /\ db_balance = InitialBalance /\ ledger = <<>>

\* The source account of the transfer exists and belongs to another user.
NotOwned(t) ==
    /\ th[t].source_account_id \in AccountIds
    /\ AccountRows[th[t].source_account_id].user_id # th[t].user

\* C17: a transfer from an existing account of another user ends, once the
\* source query has run, with the error of a source that was not found, having
\* loaded and changed nothing; and every record's sender owns its source account.
C17_SourceOwnership ==
    /\ \A t \in Transfers : (NotOwned(t) /\ th[t].pc # "query_source") =>
          /\ Failed(t, ErrSource)
          /\ th[t].error = Error(ErrSource)
          /\ th[t].loaded = EmptySession /\ th[t].sess = EmptySession
          /\ th[t].pending = <<>> /\ th[t].result = <<>>
          /\ NoEffect(t)
    /\ \A i \in 1..Len(ledger) :
          AccountRows[ledger[i].rec.source_account_id].user_id = ledger[i].rec.sender_id

\* User 2 asks for 60 out of account 1 of user 1, which holds 100.
C17_Witness ==
    \E t \in Transfers :
        /\ NotOwned(t) /\ Failed(t, ErrSource)
        /\ th[t].user = 2 /\ th[t].source_account_id = 1
        /\ th[t].destination_account_id = 3
        /\ th[t].amount = 60 /\ db_balance[1] = 100

\* The source of the transfer was found and its destination exists and belongs
\* to a user other than the caller.
ToOtherUser(t) ==
    /\ SourceFound(th[t].source_account_id, th[t].user)
    /\ th[t].destination_account_id \in AccountIds
    /\ AccountRows[th[t].destination_account_id].user_id # th[t].user

\* C18: a transfer to an account of another user finds its destination; it
\* fails only for an insufficient balance, a resolver that failed or a commit
\* that failed, and otherwise commits a record whose sender is the caller and
\* whose receiver is the owner of the destination account.
C18_DestinationByIdOnly ==
    \A t \in Transfers : ToOtherUser(t) =>
        /\ th[t].pc \notin {"query_source", "query_destination"} =>
              th[t].destination_account_id \in DOMAIN th[t].loaded
        /\ (th[t].pc = "done" /\ th[t].status = "raised") =>
              \/ /\ th[t].error.msg = ErrBalance
                 /\ th[t].loaded[th[t].source_account_id] < th[t].amount
              \/ th[t].error.msg = ErrRate /\ ResolverFailed(t)
              \/ th[t].error.msg = ErrCommit /\ NoEffect(t)
        /\ Committed(t) =>
              /\ th[t].result[1].rec.sender_id = th[t].user
              /\ th[t].result[1].rec.receiver_id
                    = AccountRows[th[t].destination_account_id].user_id
              /\ ledger[Len(ledger)] = th[t].result[1]

C18_Witness ==
    \E t \in Transfers :
        /\ ToOtherUser(t) /\ Committed(t) /\ th[t].pc = "done"
        /\ th[t].user = 1 /\ th[t].destination_account_id = 2
        /\ ledger[Len(ledger)].rec.sender_id = 1
        /\ ledger[Len(ledger)].rec.receiver_id = 2

\* The call of thread t is inside get_exchange_rate.
InResolver(t) ==
    th[t].pc \in {"ex_first", "ex_save", "ex_pick", "ex_store", "ex_second",
                  "ex_restore"}

\* C19: the failure reported is the first that holds in the order source,
\* destination, balance, rate: a source missing or not owned gives the source
\* error whatever else holds; with the source found a missing destination gives
\* the destination error whatever the balance; with both found a balance below
\* the amount gives the balance error before any rate is asked for. The resolver
\* is asked only with both accounts found and the balance check passed, and
\* until it has returned no balance has changed, in the session or in the
\* database.
C19_FailureOrder ==
    \A t \in Transfers :
        LET src == th[t].source_account_id
            dst == th[t].destination_account_id
        IN /\ (~SourceFound(src, th[t].user) /\ th[t].pc # "query_source") =>
                 Failed(t, ErrSource)
           /\ (SourceFound(src, th[t].user) /\ dst \notin AccountIds
                 /\ th[t].pc \notin {"query_source", "query_destination"}) =>
                 Failed(t, ErrDestination)
           /\ (Checked(t) /\ th[t].loaded[src] < th[t].amount) =>
                 Failed(t, ErrBalance) /\ th[t].attempts = <<>>
           /\ Failed(t, ErrRate) =>
                 Checked(t) /\ th[t].loaded[src] >= th[t].amount
           /\ (InResolver(t) \/ th[t].attempts # <<>>) =>
                 Checked(t) /\ th[t].loaded[src] >= th[t].amount
           /\ InResolver(t) =>
                 /\ th[t].sess = th[t].loaded
                 /\ th[t].pending = <<>>
                 /\ NoEffect(t)

\* A transfer whose destination is missing and whose source holds less than the
\* amount reports the destination.
C19_Witness ==
    \E t \in Transfers :
        /\ Failed(t, ErrDestination)
        /\ th[t].destination_account_id = MissingAccountId
        /\ th[t].source_account_id \in DOMAIN th[t].loaded
        /\ th[t].loaded[th[t].source_account_id] < th[t].amount

\* C20: when the notification of a committed transfer raised, the call has
\* returned the committed transaction and raised nothing, and the debit, the
\* credit and the record are in the database as committed.
C20_NotificationFailureSwallowed ==
    \A t \in Transfers : th[t].notified = "failed" =>
        /\ th[t].pc = "done"
        /\ th[t].status = "returned"
        /\ th[t].error = NoError
        /\ th[t].result = <<ledger[Len(ledger)]>>
        /\ th[t].result[1].rec = th[t].pending[1]
        /\ AllEffects(t)

C20_Witness ==
    \E t \in Transfers :
        /\ th[t].notified = "failed"
        /\ th[t].status = "returned"
        /\ th[t].source_account_id = 1 /\ th[t].destination_account_id = 2
        /\ th[t].amount = 60 /\ th[t].exchange_rate = 2
        /\ db_balance[1] = 40 /\ db_balance[2] = 170
        /\ Len(ledger) = 1

\* The users a notification was attempted for in the call of thread t.
Notified(t) == {th[t].notices[i].to : i \in 1..Len(th[t].notices)}

\* C21: when a committed transfer has returned, a notification was attempted
\* for the sender and, the receiver user having been resolved, for the receiver;
\* a transfer that failed or has not been committed has attempted none.
C21_SenderAndReceiverNotified ==
    \A t \in Transfers :
        /\ (Committed(t) /\ th[t].pc = "done" /\ th[t].receiver # 0) =>
              /\ th[t].user \in Notified(t)
              /\ th[t].receiver \in Notified(t)
        /\ ~Committed(t) => th[t].notices = <<>>

\* The reference lookup: the directed pair when the table has it, else one over
\* the inverse pair when the table has that, else no rate.
RefDirect(f, t) == <<f, t>> \in DOMAIN MOCKED_RATES
RefInverse(f, t) == <<t, f>> \in DOMAIN MOCKED_RATES

MockCalls == {t \in Threads : th[t].op = "mock_rate" /\ th[t].pc = "done"}

\* C22: every call of the mock resolver that has ended returned the table value
\* of the directed pair when the table has it, whether or not it has the inverse
\* pair; else one over the table value of the inverse pair when the table has
\* that; else it raised the error naming both codes and returned no rate.
C22_MockLookup ==
    \A t \in MockCalls :
        LET f == th[t].from_currency
            c == th[t].to_currency
        IN /\ RefDirect(f, c) =>
                 /\ th[t].status = "returned"
                 /\ th[t].result = <<MOCKED_RATES[<<f, c>>]>>
           /\ (~RefDirect(f, c) /\ RefInverse(f, c)) =>
                 /\ th[t].status = "returned"
                 /\ th[t].result = <<<<MOCKED_RATES[<<c, f>>][2],
                                       MOCKED_RATES[<<c, f>>][1]>>>>
           /\ (~RefDirect(f, c) /\ ~RefInverse(f, c)) =>
                 /\ th[t].status = "raised"
                 /\ th[t].error = [msg |-> ErrMockRate, from |-> f, to |-> c]
                 /\ th[t].result = <<>>

\* Direct wins with the inverse present, the inverse is used, and a miss raises.
C22_Witness ==
    \E t \in MockCalls, u \in MockCalls :
        /\ th[t].from_currency = "USD" /\ th[t].to_currency = "PEN"
        /\ th[t].result = <<<<370, 100>>>>
        /\ \/ /\ th[u].from_currency = "USD" /\ th[u].to_currency = "GBP"
              /\ th[u].result = <<<<100, 125>>>>
           \/ /\ th[u].from_currency = "XYZ" /\ th[u].to_currency = "ABC"
              /\ th[u].status = "raised"

Deposits == {t \in Threads : th[t].op = "deposit"}

\* C23: a deposit of an amount <= 0 ends, at the validation, with the
\* invalid-amount error: it never reaches the account query or the commit, loads
\* no row, returns no account and changes no balance, whether or not its account
\* exists.
C23_DepositInvalidAmount ==
    \A t \in Deposits : th[t].amount <= 0 =>
        /\ th[t].pc \in {"dep_validate", "done"}
        /\ th[t].pc = "done" => Failed(t, ErrDepositAmount)
        /\ th[t].loaded = EmptySession /\ th[t].sess = EmptySession
        /\ th[t].account = <<>>
        /\ NoEffect(t)

C23_Witness ==
    \E t \in Deposits :
        /\ Failed(t, ErrDepositAmount)
        /\ th[t].amount = 0
        /\ th[t].account_id = MissingAccountId
        /\ db_balance = th[t].pre_balance

\* C24: a deposit of an amount > 0 to an account id no row has ends, at the
\* account query, with the account-not-found error: it never reaches the commit,
\* returns no account and changes no balance and no record.
C24_DepositAccountNotFound ==
    \A t \in Deposits : (th[t].amount > 0 /\ th[t].account_id \notin AccountIds) =>
        /\ th[t].pc \in {"dep_validate", "dep_query", "done"}
        /\ th[t].pc = "done" => Failed(t, ErrDepositAccount)
        /\ th[t].loaded = EmptySession /\ th[t].sess = EmptySession
        /\ th[t].account = <<>>
        /\ NoEffect(t)

C24_Witness ==
    \E t \in Deposits :
        /\ Failed(t, ErrDepositAccount)
        /\ th[t].amount = 60
        /\ th[t].account_id = MissingAccountId
        /\ db_balance = th[t].pre_balance

\* C25: when a deposit has returned, the balance of its account is the balance
\* the call found plus the amount, the account returned carries that balance,
\* every other balance is as the call found it and so are the records.
C25_DepositEffect ==
    \A t \in Deposits : (th[t].pc = "done" /\ th[t].status = "returned") =>
        /\ th[t].amount > 0
        /\ th[t].account_id \in AccountIds
        /\ db_balance[th[t].account_id]
              = th[t].pre_balance[th[t].account_id] + th[t].amount
        /\ th[t].account = <<[id |-> th[t].account_id,
                              balance |-> th[t].pre_balance[th[t].account_id]
                                            + th[t].amount]>>
        /\ \A x \in AccountIds \ {th[t].account_id} :
              db_balance[x] = th[t].pre_balance[x]
        /\ ledger = th[t].pre_ledger

\* A deposit of 60 to account 2 after a transfer was recorded.
C25_Witness ==
    \E t \in Deposits :
        /\ th[t].pc = "done" /\ th[t].status = "returned"
        /\ th[t].account_id = 2 /\ th[t].amount = 60
        /\ db_balance[2] = th[t].pre_balance[2] + 60
        /\ Len(ledger) = 1

Listings == {t \in Threads : th[t].op = "list" /\ th[t].pc = "done"}

\* C26: a listing for user u that has ended returned, raising nothing, records
\* of the table only, each with u as its sender or its receiver; every such
\* record of the table is in the result exactly once; the timestamps go from
\* newest to oldest; with no such record the result is empty; and balances,
\* records and current provider are as the call found them.
C26_UserTransactions ==
    \A t \in Listings :
        LET r == th[t].result
            u == th[t].user
        IN /\ th[t].status = "returned"
           /\ \A i \in 1..Len(r) :
                 /\ \E j \in 1..Len(ledger) : ledger[j] = r[i]
                 /\ r[i].rec.sender_id = u \/ r[i].rec.receiver_id = u
           /\ \A j \in 1..Len(ledger) :
                 (ledger[j].rec.sender_id = u \/ ledger[j].rec.receiver_id = u) =>
                     Cardinality({i \in 1..Len(r) : r[i] = ledger[j]}) = 1
           /\ \A i, j \in 1..Len(r) :
                 i < j => r[i].rec.timestamp >= r[j].rec.timestamp
           /\ (\A j \in 1..Len(ledger) :
                  ledger[j].rec.sender_id # u /\ ledger[j].rec.receiver_id # u) =>
                 r = <<>>
           /\ NoEffect(t)
           /\ current_api = th[t].pre_api

\* Three records, the newest inserted first; two of them involve the user and
\* are returned newest first, the third is left out.
C26_Witness ==
    \E t \in Listings :
        /\ Len(ledger) = 3
        /\ Len(th[t].result) = 2
        /\ th[t].result[1].rec.timestamp > th[t].result[2].rec.timestamp
        /\ th[t].result[1].id < th[t].result[2].id

Switches == {t \in Threads : th[t].op = "switch"}

\* C27: a caller of switch_api asks no provider; after one application the
\* current provider is the other of the two, the fallback from the primary and
\* the primary from the fallback; after two in a row it is the one the caller
\* found.
C27_SwitchToggles ==
    \A t \in Switches :
        /\ th[t].attempts = <<>>
        /\ th[t].pc = "done" =>
              th[t].status = "returned" /\ th[t].switches = th[t].times
        /\ th[t].switches = 0 => current_api = th[t].pre_api
        /\ th[t].switches = 1 =>
              /\ th[t].pre_api = "primary" => current_api = "fallback"
              /\ th[t].pre_api = "fallback" => current_api = "primary"
        /\ th[t].switches = 2 => current_api = th[t].pre_api

\* Two applications in a row with the fallback current.
C27_Witness ==
    \E t \in Switches :
        /\ th[t].pc = "done" /\ th[t].switches = 2
        /\ th[t].pre_api = "fallback" /\ current_api = "fallback"

SupportedCalls == {t \in Threads : th[t].op = "currencies" /\ th[t].pc = "done"}

\* C28: a call of get_supported_currencies that has ended asked one provider,
\* the one that was current when it began, and no other; when that provider
\* answered, the call returned its answer, the primary's with the primary
\* current and the fallback's with the fallback current; and the current
\* provider is the one the call found.
C28_SupportedCurrencies ==
    \A t \in SupportedCalls :
        /\ Len(th[t].attempts) = 1
        /\ th[t].attempts[1].api = th[t].pre_api
        /\ th[t].attempts[1].ok <=> th[t].status = "returned"
        /\ th[t].status = "returned" =>
              /\ th[t].pre_api = "primary" => th[t].result = <<{"USD", "EUR"}>>
              /\ th[t].pre_api = "fallback" => th[t].result = <<{"GBP"}>>
        /\ th[t].status = "raised" => th[t].result = <<>>
        /\ current_api = th[t].pre_api

\* The fallback is current and its currencies are returned.
C28_Witness ==
    \E t \in SupportedCalls :
        /\ th[t].pre_api = "fallback"
        /\ th[t].status = "returned"
        /\ th[t].result = <<{"GBP"}>>
        /\ current_api = "fallback"

\* The calls made through a reference to the shared resolver.
Constructing == {"transfer", "switch", "currencies"}

\* C29: there is no instance before the first construction and one from then
\* on; the first construction makes the primary current, every later one
\* leaves the current provider as it is, and the constructing call finds as
\* current what the calls before it left, a failover of an earlier transfer
\* included.
C29_Singleton ==
    /\ [](\A t \in Threads : th[t].op \in Constructing =>
             current_api \in {"primary", "fallback"})
    /\ [][\A t \in Threads :
            (th[t].pc = "idle" /\ th'[t].op \in Constructing) =>
                /\ current_api = "none" => current_api' = "primary"
                /\ current_api # "none" => current_api' = current_api
                /\ th'[t].pre_api = current_api']_vars

\* A transfer begins after the transfer of another request failed over: it
\* finds the fallback current.
C29_Witness ==
    \E t \in Transfers :
        /\ th[t].pc = "query_source"
        /\ th[t].pre_api = "fallback"
        /\ current_api = "fallback"
        /\ Len(ledger) = 1
        /\ ledger[1].rec.exchange_rate \in ApiRates.fallback

\* C30: every transfer create_new_transaction has committed for a request of
\* the transaction routes, and every transfer recorded, has an amount > 0: no
\* amount <= 0 is applied to balances.
C30_AmountPositive ==
    /\ \A t \in Transfers : Committed(t) => th[t].amount > 0
    /\ \A i \in 1..Len(ledger) : ledger[i].rec.source_amount > 0

\* Every call made so far is a transfer whose thread still holds its record.
OnlyTransfers == ncalls >= 1 /\ ncalls = Cardinality(Transfers)

\* The provider api was asked in these calls and answered every time.
AlwaysAnswers(api) ==
    /\ \E t \in Transfers : \E i \in 1..Len(th[t].attempts) :
          th[t].attempts[i].api = api
    /\ \A t \in Transfers : \A i \in 1..Len(th[t].attempts) :
          th[t].attempts[i].api = api => th[t].attempts[i].ok

\* C32: when one of the two providers answers every time it is asked, no
\* get_exchange_rate call raises, whichever provider is current at the start
\* and however the calls of concurrent requests interleave.
C32_OneProviderSuffices ==
    (OnlyTransfers /\ \E api \in {"primary", "fallback"} : AlwaysAnswers(api))
    => \A t \in Transfers : ~Failed(t, ErrRate)

\* C33: in a get_exchange_rate call whose first attempt failed, the second
\* attempt is made on the other provider: no call asks the same provider
\* twice, also when the calls of several requests interleave.
C33_SecondAttemptOnOther ==
    \A t \in Transfers :
        Len(th[t].attempts) = 2 => th[t].attempts[1].api # th[t].attempts[2].api

RECURSIVE Total(_, _)
\* The sum of the balances b of the accounts S.
Total(b, S) ==
    IF S = {} THEN 0
    ELSE LET x == CHOOSE y \in S : TRUE IN b[x] + Total(b, S \ {x})

\* C34: when every call so far is a create_new_transaction call of an amount
\* > 0 and every transfer recorded is between accounts of one currency code, the
\* sum of all account balances is the sum before the calls, under every
\* interleaving.
C34_MoneyConserved ==
    ( /\ OnlyTransfers
      /\ \A t \in Transfers : th[t].amount > 0
      /\ \A i \in 1..Len(ledger) :
            SourceCode(ledger[i].rec) = DestinationCode(ledger[i].rec) )
    => Total(db_balance, AccountIds) = Total(InitialBalance, AccountIds)

\* The amount the call of thread t, ended with success, has credited to
\* account x: a deposit to x, or a transfer to x from another account.
Credits(t, x) ==
    /\ th[t].pc = "done" /\ th[t].status = "returned"
    /\ \/ th[t].op = "deposit" /\ th[t].account_id = x
       \/ /\ th[t].op = "transfer"
          /\ th[t].destination_account_id = x
          /\ th[t].source_account_id # x

Credited(t) ==
    IF th[t].op = "deposit" THEN th[t].amount ELSE th[t].destination_amount

\* C35: when two concurrent calls, the only calls made, have both credited the
\* same account and ended with success, the balance of that account is its
\* initial balance plus both credited amounts.
C35_BothCreditsApplied ==
    \A x \in AccountIds : \A t, u \in Threads :
        ( /\ t # u
          /\ ncalls = 2
          /\ Credits(t, x) /\ Credits(u, x)
          /\ th[t].pre_balance = InitialBalance
          /\ th[u].pre_balance = InitialBalance )
        => db_balance[x] = InitialBalance[x] + Credited(t) + Credited(u)

\* The transfer of thread t is from an account of the caller to that account.
ToItself(t) ==
    /\ th[t].op = "transfer"
    /\ SourceFound(th[t].source_account_id, th[t].user)
    /\ th[t].destination_account_id = th[t].source_account_id

CurrencyMissing(t) ==
    /\ th[t].op = "transfer"
    /\ SourceFound(th[t].source_account_id, th[t].user)
    /\ DestinationFound(th[t].destination_account_id)
    /\ ~Insufficient(th[t].pre_balance[th[t].source_account_id], th[t].amount)
    /\ \/ th[t].source_account_id \in OrphanAccountIds
       \/ th[t].destination_account_id \in OrphanAccountIds

\* C31: a transfer that reaches the currency queries and finds no row for the
\* currency of its source or of its destination ends there with an error the
\* route answers with status 500, while it answers every validation error with
\* status 400; the call asks no rate, builds no record, and changes no balance
\* and no record.
C31_CurrencyMissing ==
    /\ \A m \in ValidationErrors : StatusCode(Error(m)) = 400
    /\ \A t \in Threads : CurrencyMissing(t) =>
          /\ th[t].pc \in {"query_source", "query_destination", "done"}
          /\ th[t].pc = "done" =>
                /\ Failed(t, ErrNoneCode)
                /\ StatusCode(th[t].error) = 500
          /\ th[t].attempts = <<>>
          /\ th[t].pending = <<>>
          /\ th[t].sess = th[t].loaded
          /\ th[t].result = <<>>
          /\ NoEffect(t)

\* After a recorded transfer, user 1 sends 60 from account 1 to account 4,
\* whose currency row is missing.
C31_Witness ==
    \E t \in Threads :
        /\ CurrencyMissing(t)
        /\ Failed(t, ErrNoneCode)
        /\ th[t].source_account_id = 1 /\ th[t].destination_account_id = 4
        /\ th[t].amount = 60
        /\ Len(ledger) = 1
        /\ db_balance = th[t].pre_balance

\* C38: a transfer of a service built with use_mocked_exchange=True queries no
\* receiver and attempts no notification, whether sent or failed; every
\* notification attempted is of a committed transfer of a service built with
\* use_mocked_exchange=False.
C38_MockedNeverNotifies ==
    \A t \in Transfers :
        /\ th[t].use_mocked_exchange =>
              /\ th[t].notices = <<>>
              /\ th[t].notified = "none"
              /\ th[t].receiver = 0
        /\ (th[t].notices # <<>> \/ th[t].notified # "none") =>
              /\ ~th[t].use_mocked_exchange
              /\ Committed(t)

\* A mocked USD to EUR transfer of 100 at 0.92 has returned, recorded and not
\* notified, after a transfer of the other route was notified.
C38_Witness ==
    \E t \in Transfers :
        /\ th[t].use_mocked_exchange
        /\ th[t].pc = "done" /\ th[t].status = "returned"
        /\ th[t].from_currency = "USD" /\ th[t].to_currency = "EUR"
        /\ th[t].amount = 100 /\ th[t].destination_amount = 92
        /\ th[t].exchange_rate = <<92, 100>>
        /\ Len(ledger) = 2
        /\ th[t].result = <<ledger[2]>>
        /\ th[t].notices = <<>>

Constructions == {t \in Threads : th[t].op = "construct"}

\* C36: when the threads that constructed ExchangeService() concurrently, the
\* first constructions of the process, have all ended, each of them has
\* obtained an instance, the same for all, and each obtained it with its
\* primary, fallback and current providers set.
C36_OneCompleteInstance ==
    (Constructions = Threads /\ ncalls = Cardinality(Threads)
       /\ \A t \in Threads : th[t].pc = "done")
    => /\ \A t \in Threads : th[t].status = "returned" /\ th[t].complete
       /\ \A t, u \in Threads : th[t].service = th[u].service

\* C39: a request of a user to the listing route ends with the result of
\* get_user_transactions for that user, the user's records newest first, and
\* with no error, whether the user has records or none.
C39_ListingRouteReturns ==
    \A t \in Threads : (th[t].op = "list_route" /\ th[t].pc = "done") =>
        /\ th[t].status = "returned"
        /\ th[t].error = NoError
        /\ th[t].result = OrderByTimestampDesc(Filter(ledger, th[t].user))

\* The call of thread t is a transfer or a deposit.
MoneyCall(t) == th[t].op \in {"transfer", "deposit"}

\* The call of thread t has ended with exactly one outcome: the transaction or
\* the account and no error, or an error and neither of them.
OneOutcome(t) ==
    \/ /\ th[t].status = "returned"
       /\ th[t].error = NoError
       /\ th[t].op = "transfer" => Len(th[t].result) = 1 /\ th[t].account = <<>>
       /\ th[t].op = "deposit" => Len(th[t].account) = 1 /\ th[t].result = <<>>
    \/ /\ th[t].status = "raised"
       /\ th[t].error # NoError
       /\ th[t].result = <<>> /\ th[t].account = <<>>

\* C40: every transfer and every deposit call ends, the store and the providers
\* answering; it ends with exactly one outcome, the transaction or the account,
\* or one error; a call that ends with an error has changed no balance and no
\* record; and a step that changes a balance is the commit of a call that goes
\* on to return its transaction or its account.
C40_EndsWithOneOutcome ==
    /\ \A t \in Threads : MoneyCall(t) ~> (MoneyCall(t) /\ th[t].pc = "done")
    /\ [](\A t \in Threads : (MoneyCall(t) /\ th[t].pc = "done") =>
             /\ OneOutcome(t)
             /\ th[t].status = "raised" => NoEffect(t))
    /\ [][db_balance' # db_balance =>
            \E t \in Threads :
                /\ MoneyCall(t)
                /\ th[t].pc \in {"commit", "dep_commit"}
                /\ th'[t].pc \in {"notify", "done"}
                /\ th'[t].status # "raised"
                /\ Len(th'[t].result) + Len(th'[t].account) = 1]_vars

\* After a committed transfer, a transfer whose first provider failed was
\* answered by the other provider, was committed, and has returned its record.
C40_Witness ==
    \E t \in Transfers :
        /\ th[t].pc = "done" /\ th[t].status = "returned"
        /\ FailedOver(t)
        /\ Len(ledger) = 2
        /\ th[t].result = <<ledger[2]>>
        /\ db_balance # th[t].pre_balance
====
